---------------------------- MODULE Spec2Model ----------------------------
(***************************************************************************)
(* Model of the two browser walkthrough scripts                            *)
(*   jules-scratch/verification/verify_features.py  (Procedure A)          *)
(*   jules-scratch/verification/verify_layout.py    (Procedure B)          *)
(* run against an external web application (the SUT).  The SUT is the      *)
(* environment: its behaviour is a record chosen in Init and kept for the  *)
(* whole behaviour, plus one bit of SUT state (seeded) that survives from  *)
(* one run of a script to the next.                                        *)
(***************************************************************************)
EXTENDS Integers, Sequences, FiniteSets, TLC

VARIABLES
    script,      \* which entry point is run: "features" or "layout"
    sut,         \* behaviour of the SUT (fixed environment)
    seeded0,     \* SUT state when the current run began
    seeded,      \* SUT state: sample data has been loaded
    run,         \* number of the current run of the script (1..MaxRuns)
    pc,          \* next statement of the script
    playwright,  \* the sync_playwright() scope: "running" or "stopped"
    browser,     \* the browser process: "none", "open" or "closed"
    url,         \* URL of the page
    clock,       \* milliseconds the current run has spent blocked
    log,         \* statements the current run has executed, in order
    raised,      \* statement that raised in the current run, or "none"
    exitCode,    \* process exit status of the current run, -1 while running
    shots,       \* screenshots captured by the current run
    files,       \* screenshot files on disk (survive across runs)
    outcomes     \* exit statuses of the finished runs, in order

vars == <<script, sut, seeded0, seeded, run, pc, playwright, browser, url, clock,
          log, raised, exitCode, shots, files, outcomes>>

---------------------------------------------------------------------------
(* Bounds of the model *)

MaxRuns == 2

LatencyStep == 2500

MaxLatencySteps == 13

Latencies == {k * LatencyStep : k \in 0..MaxLatencySteps}

---------------------------------------------------------------------------
(* Constants of the scripts and of the library defaults they rely on *)

\* expect(load_data_button).to_be_visible(timeout=20000)
ButtonTimeout == 20000

\* expect(first_tool_card).to_be_visible(timeout=20000)
CardTimeout == 20000

\* expect(page).to_have_url(..., timeout=10000)
UrlTimeout == 10000

\* expect(...).to_be_visible() without a timeout: the library's 5 s default
ExpectTimeout == 5000

\* goto, wait_for_load_state, wait_for_selector without a timeout: 30 s default
DefaultTimeout == 30000

\* browser.new_page() without a viewport: the library's 1280x720 default
ViewportHeight == 720

PageHeights == {ViewportHeight, 2 * ViewportHeight}

---------------------------------------------------------------------------
(* Text, as sequences of characters *)

RootUrlA == <<"h","t","t","p",":","/","/","l","o","c","a","l","h","o","s","t",":","5","1","7","3","/">>

RootUrlB == <<"h","t","t","p",":","/","/","l","o","c","a","l","h","o","s","t",":","5","1","7","4","/">>

ToolUrl == <<"h","t","t","p",":","/","/","l","o","c","a","l","h","o","s","t",":","5","1","7","3","/","t","o","o","l","/","1">>

ToolsUrl == <<"h","t","t","p",":","/","/","l","o","c","a","l","h","o","s","t",":","5","1","7","3","/","t","o","o","l","s">>

AboutBlank == <<"a","b","o","u","t",":","b","l","a","n","k">>

ToolMarker == <<"/","t","o","o","l","/">>

HeadingPattern == <<"A","I"," ","T","o","o","l","s"," ","D","a","t","a","b","a","s","e">>

HeadingLower == <<"a","i"," ","t","o","o","l","s"," ","d","a","t","a","b","a","s","e">>

HeadingLonger == <<"B","r","o","w","s","e"," ","t","h","e"," ","A","I"," ","T","o","o","l","s"," ","D","a","t","a","b","a","s","e">>

HeadingSpaced == <<"A","I"," "," ","T","o","o","l","s"," ","D","a","t","a","b","a","s","e">>

HeadingShort == <<"A","I"," ","T","o","o","l","s">>

HeadingOther == <<"D","a","s","h","b","o","a","r","d">>

NoHeading == <<>>

Headings == {HeadingPattern, HeadingLower, HeadingLonger, HeadingSpaced,
             HeadingShort, HeadingOther, NoHeading}

FeaturesShotPath == "jules-scratch/verification/verification.png"

LayoutShotPath == "jules-scratch/verification/browse-page-fixed.png"

UpperCase == <<"A","B","C","D","E","F","G","H","I","J","K","L","M",
               "N","O","P","Q","R","S","T","U","V","W","X","Y","Z">>

LowerCase == <<"a","b","c","d","e","f","g","h","i","j","k","l","m",
               "n","o","p","q","r","s","t","u","v","w","x","y","z">>

\* case folding of a character
ToLower ==
    [c \in {UpperCase[i] : i \in 1..Len(UpperCase)} |->
        LowerCase[CHOOSE i \in 1..Len(UpperCase) : UpperCase[i] = c]]

LowerChar(c) == IF c \in DOMAIN ToLower THEN ToLower[c] ELSE c

Lower(s) ==
    LET folded == [i \in 1..Len(s) |-> LowerChar(s[i])]
    IN  SubSeq(folded, 1, Len(s))

\* Python's  sub in s : sub occurs in s as a contiguous run, case kept
Contains(s, sub) ==
    \E i \in 0..(Len(s) - Len(sub)) :
        \A j \in 1..Len(sub) : s[i + j] = sub[j]

\* a character survives unless it is a blank that leads, trails or follows
\* another blank
KeptChar(s, i) ==
    \/ s[i] # " "
    \/ /\ \E j \in 1..(i - 1) : s[j] # " "
       /\ \E j \in (i + 1)..Len(s) : s[j] # " "
       /\ s[i - 1] # " "

\* whitespace normalisation of the text engine: runs of blanks collapse to
\* one blank, leading and trailing blanks are dropped
NormalizeWhiteSpace(s) ==
    LET marked == [i \in 1..Len(s) |-> [ch |-> s[i], keep |-> KeptChar(s, i)]]
        kept == SelectSeq(marked, LAMBDA m : m.keep)
    IN  SubSeq([k \in 1..Len(kept) |-> kept[k].ch], 1, Len(kept))

\* the  :has-text("...")  pseudo-class of the selector: the element's text
\* contains the pattern, ignoring case, after whitespace normalisation
HasTextExact(text, pattern) == text = pattern

HasText(text, pattern) ==
    /\ Len(text) > 0
    /\ Contains(Lower(NormalizeWhiteSpace(text)),
                Lower(NormalizeWhiteSpace(pattern)))

\* h1:has-text("AI Tools Database") against each heading the SUT may serve
SelectorMatches == [h \in Headings |-> HasText(h, HeadingPattern)]

\* the predicate of to_have_url:  lambda url: "/tool/" in url
ToolMarkerLoose == <<"/","t","o","o","l">>

UrlPredicateLoose(u) == Contains(u, ToolMarkerLoose)

UrlPredicate(u) == Contains(u, ToolMarker)

---------------------------------------------------------------------------
(* The SUT *)

Servers == {"refused", "hang", "busy", "up"}

ButtonPolicies == {"always", "whenEmpty", "never"}

CardTargets == {ToolUrl, ToolsUrl, RootUrlA}

SutBehaviours ==
    [ server     : Servers,         \* refused: nothing listens; hang: accepts,
                                    \* never answers; busy: loads, never idle
      latency    : Latencies,       \* ms from a wait's start until what the
                                    \* SUT will show is there
      button     : ButtonPolicies,  \* when "Load Sample Data" is offered
      cards      : BOOLEAN,         \* seeded data renders as cards
      cardTarget : CardTargets,     \* where a click on the first card leads
      favourite  : BOOLEAN,         \* detail view shows the top-right button
      reviews    : BOOLEAN,         \* detail view shows the Reviews heading
      heading    : Headings,        \* text of the h1 of the browse page
      disk       : BOOLEAN ]        \* the screenshot can be captured and saved

ButtonOffered ==
    \/ sut.button = "always"
    \/ sut.button = "whenEmpty" /\ ~seeded

CardShown == seeded /\ sut.cards


---------------------------------------------------------------------------
(* Blocking calls of the automation library *)

\* A blocking wait for a condition with a deadline.  What the SUT will show
\* is there sut.latency ms after the wait starts; the wait returns then if
\* that is before the deadline, and raises TimeoutError at the deadline
\* otherwise.  A timeout of 0 disables the deadline: the call then blocks
\* for as long as the condition does not hold.
WaitOutcome(holds, timeout) ==
    IF holds /\ (timeout = 0 \/ sut.latency < timeout) THEN "returns"
    ELSE IF timeout > 0 THEN "times out"
    ELSE "blocks"

WaitPasses(holds, timeout) == WaitOutcome(holds, timeout) = "returns"

WaitTimesOut(holds, timeout) == WaitOutcome(holds, timeout) = "times out"

\* the statement returned after blocking for took ms: control moves on
Proceed(step, next, took) ==
    /\ pc' = next
    /\ log' = Append(log, step)
    /\ clock' = clock + took
    /\ UNCHANGED raised

\* the statement raised after blocking for took ms.  Nothing in either
\* script catches: the exception unwinds to the with statement's exit.
Raise(step, took) ==
    /\ pc' = "with_exit"
    /\ log' = Append(log, step)
    /\ clock' = clock + took
    /\ raised' = step

Await(step, next, holds, timeout) ==
    \/ WaitPasses(holds, timeout) /\ Proceed(step, next, sut.latency)
    \/ WaitTimesOut(holds, timeout) /\ Raise(step, timeout)

\* page.goto(url): a refused connection raises at once; otherwise the call
\* blocks until the load event or the default deadline
Navigate(step, next, target) ==
    \/ /\ sut.server = "refused"
       /\ Raise(step, 0)
       /\ UNCHANGED url
    \/ /\ sut.server # "refused"
       /\ WaitPasses(sut.server # "hang", DefaultTimeout)
       /\ Proceed(step, next, sut.latency)
       /\ url' = target
    \/ /\ sut.server # "refused"
       /\ WaitTimesOut(sut.server # "hang", DefaultTimeout)
       /\ Raise(step, DefaultTimeout)
       /\ UNCHANGED url

\* page.screenshot(path=...): full_page is not passed and defaults to False,
\* so the capture is clipped to the viewport whatever the page's height
PageScreenshotFullPage(path, pageHeight) ==
    [path |-> path, full_page |-> TRUE, page_height |-> pageHeight,
     height |-> pageHeight]

PageScreenshot(path, pageHeight) ==
    [path |-> path, full_page |-> FALSE, page_height |-> pageHeight,
     height |-> ViewportHeight]

\* the file at the capture's path is created or overwritten
WriteFile(fs, shot) ==
    {f \in fs : f.path # shot.path} \cup
    {[path |-> shot.path, height |-> shot.height]}

Capture(step, next, path) ==
    \/ /\ sut.disk
       /\ \E h \in PageHeights :
            /\ shots' = Append(shots, PageScreenshot(path, h))
            /\ files' = WriteFile(files, shots'[Len(shots')])
       /\ Proceed(step, next, 0)
    \/ /\ ~sut.disk
       /\ Raise(step, 0)
       /\ UNCHANGED <<shots, files>>

\* leaving  with sync_playwright()  stops the driver, and the driver takes
\* down every browser it launched that is still running
PlaywrightStopLeak(b) == b

PlaywrightStop(b) == IF b = "open" THEN "closed" ELSE b

\* an exception that reaches the top level ends the process with status 1
ExitStatus(r) == IF r = "none" THEN 0 ELSE 1

Exit ==
    /\ pc = "with_exit"
    /\ playwright' = "stopped"
    /\ browser' = PlaywrightStop(browser)
    /\ exitCode' = ExitStatus(raised)
    /\ outcomes' = Append(outcomes, exitCode')
    /\ pc' = "exited"
    /\ UNCHANGED <<script, sut, seeded0, seeded, run, url, clock, log, raised,
                   shots, files>>

\* the script is started again: a fresh process, the same SUT and disk
Restart ==
    /\ pc = "exited"
    /\ run < MaxRuns
    /\ run' = run + 1
    /\ pc' = "with_enter"
    /\ playwright' = "stopped"
    /\ browser' = "none"
    /\ url' = AboutBlank
    /\ clock' = 0
    /\ log' = <<>>
    /\ raised' = "none"
    /\ exitCode' = -1
    /\ shots' = <<>>
    /\ seeded0' = seeded
    /\ UNCHANGED <<script, sut, seeded, files, outcomes>>

---------------------------------------------------------------------------
(* Procedure A: verify_features.py *)

WithEnter ==
    /\ script = "features" /\ pc = "with_enter"
    /\ playwright' = "running"
    /\ pc' = "launch"
    /\ UNCHANGED <<script, sut, seeded0, seeded, run, browser, url, clock, log,
                   raised, exitCode, shots, files, outcomes>>

Launch ==
    /\ script = "features" /\ pc = "launch"
    /\ browser' = "open"
    /\ Proceed("launch", "new_page", 0)
    /\ UNCHANGED <<script, sut, seeded0, seeded, run, playwright, url, exitCode,
                   shots, files, outcomes>>

NewPage ==
    /\ script = "features" /\ pc = "new_page"
    /\ url' = AboutBlank
    /\ Proceed("new_page", "goto", 0)
    /\ UNCHANGED <<script, sut, seeded0, seeded, run, playwright, browser, exitCode,
                   shots, files, outcomes>>

GotoIgnoreError ==
    /\ script = "features" /\ pc = "goto"
    /\ url' = IF sut.server \in {"up", "busy"} THEN RootUrlA ELSE url
    /\ Proceed("goto", "wait_for_load_state", 0)
    /\ UNCHANGED <<script, sut, seeded0, seeded, run, playwright, browser, exitCode,
                   shots, files, outcomes>>

Goto ==
    /\ script = "features" /\ pc = "goto"
    /\ Navigate("goto", "wait_for_load_state", RootUrlA)
    /\ UNCHANGED <<script, sut, seeded0, seeded, run, playwright, browser, exitCode,
                   shots, files, outcomes>>

WaitForLoadState ==
    /\ script = "features" /\ pc = "wait_for_load_state"
    /\ Await("wait_for_load_state", "expect_button",
             sut.server = "up", DefaultTimeout)
    /\ UNCHANGED <<script, sut, seeded0, seeded, run, playwright, browser, url,
                   exitCode, shots, files, outcomes>>

ExpectButtonSwallow ==
    /\ script = "features" /\ pc = "expect_button"
    /\ Proceed("expect_button", "click_button",
               IF WaitPasses(ButtonOffered, ButtonTimeout)
               THEN sut.latency ELSE ButtonTimeout)
    /\ UNCHANGED <<script, sut, seeded0, seeded, run, playwright, browser, url,
                   exitCode, shots, files, outcomes>>

ExpectButtonVisible ==
    /\ script = "features" /\ pc = "expect_button"
    /\ Await("expect_button", "click_button", ButtonOffered, ButtonTimeout)
    /\ UNCHANGED <<script, sut, seeded0, seeded, run, playwright, browser, url,
                   exitCode, shots, files, outcomes>>

\* click(force=True) on the button just seen: the SUT loads its sample data
ClickButton ==
    /\ script = "features" /\ pc = "click_button"
    /\ seeded' = TRUE
    /\ Proceed("click_button", "expect_card", 0)
    /\ UNCHANGED <<script, sut, seeded0, run, playwright, browser, url, exitCode,
                   shots, files, outcomes>>

ExpectCardVisible ==
    /\ script = "features" /\ pc = "expect_card"
    /\ Await("expect_card", "click_card", CardShown, CardTimeout)
    /\ UNCHANGED <<script, sut, seeded0, seeded, run, playwright, browser, url,
                   exitCode, shots, files, outcomes>>

ClickCard ==
    /\ script = "features" /\ pc = "click_card"
    /\ url' = sut.cardTarget
    /\ Proceed("click_card", "expect_url", 0)
    /\ UNCHANGED <<script, sut, seeded0, seeded, run, playwright, browser, exitCode,
                   shots, files, outcomes>>

ExpectUrl ==
    /\ script = "features" /\ pc = "expect_url"
    /\ Await("expect_url", "expect_favourite", UrlPredicate(url), UrlTimeout)
    /\ UNCHANGED <<script, sut, seeded0, seeded, run, playwright, browser, url,
                   exitCode, shots, files, outcomes>>

ExpectFavouriteThenShot ==
    /\ script = "features" /\ pc = "expect_favourite"
    /\ Await("expect_favourite", "screenshot", sut.favourite, ExpectTimeout)
    /\ UNCHANGED <<script, sut, seeded0, seeded, run, playwright, browser, url,
                   exitCode, shots, files, outcomes>>

ExpectFavourite ==
    /\ script = "features" /\ pc = "expect_favourite"
    /\ Await("expect_favourite", "expect_reviews", sut.favourite, ExpectTimeout)
    /\ UNCHANGED <<script, sut, seeded0, seeded, run, playwright, browser, url,
                   exitCode, shots, files, outcomes>>

ExpectReviews ==
    /\ script = "features" /\ pc = "expect_reviews"
    /\ Await("expect_reviews", "screenshot", sut.reviews, ExpectTimeout)
    /\ UNCHANGED <<script, sut, seeded0, seeded, run, playwright, browser, url,
                   exitCode, shots, files, outcomes>>

ScreenshotNoPath ==
    /\ script = "features" /\ pc = "screenshot"
    /\ Proceed("screenshot", "close", 0)
    /\ UNCHANGED <<script, sut, seeded0, seeded, run, playwright, browser, url,
                   exitCode, shots, files, outcomes>>

Screenshot ==
    /\ script = "features" /\ pc = "screenshot"
    /\ Capture("screenshot", "close", FeaturesShotPath)
    /\ UNCHANGED <<script, sut, seeded0, seeded, run, playwright, browser, url,
                   exitCode, outcomes>>

BrowserClose ==
    /\ script = "features" /\ pc = "close"
    /\ browser' = "closed"
    /\ Proceed("close", "with_exit", 0)
    /\ UNCHANGED <<script, sut, seeded0, seeded, run, playwright, url, exitCode,
                   shots, files, outcomes>>

WithExit == script = "features" /\ Exit

Rerun == script = "features" /\ Restart

---------------------------------------------------------------------------
(* Procedure B: verify_layout.py *)

LayoutWithEnter ==
    /\ script = "layout" /\ pc = "with_enter"
    /\ playwright' = "running"
    /\ pc' = "launch"
    /\ UNCHANGED <<script, sut, seeded0, seeded, run, browser, url, clock, log,
                   raised, exitCode, shots, files, outcomes>>

LayoutLaunch ==
    /\ script = "layout" /\ pc = "launch"
    /\ browser' = "open"
    /\ Proceed("launch", "new_page", 0)
    /\ UNCHANGED <<script, sut, seeded0, seeded, run, playwright, url, exitCode,
                   shots, files, outcomes>>

LayoutNewPage ==
    /\ script = "layout" /\ pc = "new_page"
    /\ url' = AboutBlank
    /\ Proceed("new_page", "goto", 0)
    /\ UNCHANGED <<script, sut, seeded0, seeded, run, playwright, browser, exitCode,
                   shots, files, outcomes>>

LayoutGoto ==
    /\ script = "layout" /\ pc = "goto"
    /\ Navigate("goto", "wait_for_selector", RootUrlB)
    /\ UNCHANGED <<script, sut, seeded0, seeded, run, playwright, browser, exitCode,
                   shots, files, outcomes>>

LayoutWaitForSelectorNoTimeout ==
    /\ script = "layout" /\ pc = "wait_for_selector"
    /\ Await("wait_for_selector", "screenshot",
             SelectorMatches[sut.heading], 0)
    /\ UNCHANGED <<script, sut, seeded0, seeded, run, playwright, browser, url,
                   exitCode, shots, files, outcomes>>

LayoutWaitForSelector ==
    /\ script = "layout" /\ pc = "wait_for_selector"
    /\ Await("wait_for_selector", "screenshot",
             SelectorMatches[sut.heading], DefaultTimeout)
    /\ UNCHANGED <<script, sut, seeded0, seeded, run, playwright, browser, url,
                   exitCode, shots, files, outcomes>>

LayoutScreenshot ==
    /\ script = "layout" /\ pc = "screenshot"
    /\ Capture("screenshot", "close", LayoutShotPath)
    /\ UNCHANGED <<script, sut, seeded0, seeded, run, playwright, browser, url,
                   exitCode, outcomes>>

LayoutBrowserClose ==
    /\ script = "layout" /\ pc = "close"
    /\ browser' = "closed"
    /\ Proceed("close", "with_exit", 0)
    /\ UNCHANGED <<script, sut, seeded0, seeded, run, playwright, url, exitCode,
                   shots, files, outcomes>>

LayoutWithExit == script = "layout" /\ Exit

LayoutRerun == script = "layout" /\ Restart

---------------------------------------------------------------------------
(* Specification *)

FeaturesSuts ==
    {b \in SutBehaviours : b.heading = HeadingPattern}

LayoutSuts ==
    {b \in SutBehaviours :
        /\ b.button = "always" /\ b.cards /\ b.cardTarget = ToolUrl
        /\ b.favourite /\ b.reviews
        /\ b.server # "busy"}

Init ==
    /\ script \in {"features", "layout"}
    /\ sut \in IF script = "features" THEN FeaturesSuts ELSE LayoutSuts
    /\ seeded \in IF script = "features" THEN BOOLEAN ELSE {FALSE}
    /\ seeded0 = seeded
    /\ run = 1
    /\ pc = "with_enter"
    /\ playwright = "stopped"
    /\ browser = "none"
    /\ url = AboutBlank
    /\ clock = 0
    /\ log = <<>>
    /\ raised = "none"
    /\ exitCode = -1
    /\ shots = <<>>
    /\ files = {}
    /\ outcomes = <<>>

Next ==
    \/ WithEnter
    \/ Launch
    \/ NewPage
    \/ Goto
    \/ WaitForLoadState
    \/ ExpectButtonVisible
    \/ ClickButton
    \/ ExpectCardVisible
    \/ ClickCard
    \/ ExpectUrl
    \/ ExpectFavourite
    \/ ExpectReviews
    \/ Screenshot
    \/ BrowserClose
    \/ WithExit
    \/ Rerun
    \/ LayoutWithEnter
    \/ LayoutLaunch
    \/ LayoutNewPage
    \/ LayoutGoto
    \/ LayoutWaitForSelector
    \/ LayoutScreenshot
    \/ LayoutBrowserClose
    \/ LayoutWithExit
    \/ LayoutRerun

Spec == Init /\ [][Next]_vars

\* the interpreter keeps executing the script and the library's timers fire
FairSpec == Spec /\ WF_vars(Next)

TypeOK ==
    /\ script \in {"features", "layout"}
    /\ sut \in SutBehaviours
    /\ seeded \in BOOLEAN
    /\ seeded0 \in BOOLEAN
    /\ run \in 1..MaxRuns
    /\ playwright \in {"running", "stopped"}
    /\ browser \in {"none", "open", "closed"}
    /\ exitCode \in {-1, 0, 1}
    /\ Len(outcomes) <= MaxRuns

---------------------------------------------------------------------------
(* What the SUT does, stated on the environment alone *)

Exited == pc = "exited"

Executed(step) == \E i \in 1..Len(log) : log[i] = step

FeatureSteps ==
    <<"launch", "new_page", "goto", "wait_for_load_state", "expect_button",
      "click_button", "expect_card", "click_card", "expect_url",
      "expect_favourite", "expect_reviews", "screenshot", "close">>

IsPrefix(s, t) == Len(s) <= Len(t) /\ \A i \in 1..Len(s) : s[i] = t[i]

\* the button is on offer to the run that is under way
OfferedToRun ==
    \/ sut.button = "always"
    \/ sut.button = "whenEmpty" /\ ~seeded0

\* the SUT does not meet, within its bound, the condition that a blocking
\* statement of Procedure A waits for
Unmet(step) ==
    CASE step = "goto" ->
            sut.server \in {"refused", "hang"} \/ sut.latency >= DefaultTimeout
      [] step = "wait_for_load_state" ->
            sut.server # "up" \/ sut.latency >= DefaultTimeout
      [] step = "expect_button" ->
            ~OfferedToRun \/ sut.latency >= ButtonTimeout
      [] step = "expect_card" ->
            ~sut.cards \/ sut.latency >= CardTimeout
      [] step = "expect_url" ->
            sut.cardTarget # ToolUrl \/ sut.latency >= UrlTimeout
      [] step = "expect_favourite" ->
            ~sut.favourite \/ sut.latency >= ExpectTimeout
      [] step = "expect_reviews" ->
            ~sut.reviews \/ sut.latency >= ExpectTimeout
      [] OTHER -> FALSE

\* the SUT is reachable and meets every awaited condition within its bound,
\* and the capture can be saved
BehavesAsExpected ==
    /\ \A i \in 1..Len(FeatureSteps) : ~Unmet(FeatureSteps[i])
    /\ sut.disk

---------------------------------------------------------------------------
(* Claims *)

\* C1: in both procedures, a run never ends with the browser still open:
\* whenever the process has exited after launching the browser, on the
\* normal path or after any statement raised, the browser is terminated.
C1_BrowserReleased ==
    Exited => /\ browser # "open"
              /\ playwright = "stopped"
              /\ Executed("launch") => browser = "closed"

\* C1 witness: a run that failed at its URL assertion has exited, and the
\* browser it launched is closed although browser.close() was never reached.
C1_Witness ==
    /\ Exited /\ raised = "expect_url" /\ ~Executed("close")
    /\ browser = "closed"

\* C2: a run of Procedure A against a SUT that is reachable and meets every
\* awaited condition within its bound exits with status 0, has taken exactly
\* one screenshot, and exactly one file exists, at the fixed path.
C2_SuccessOneScreenshot ==
    (script = "features" /\ Exited /\ BehavesAsExpected) =>
        /\ exitCode = 0
        /\ raised = "none"
        /\ Len(shots) = 1
        /\ shots[1].path = FeaturesShotPath
        /\ Cardinality(files) = 1
        /\ \A f \in files : f.path = FeaturesShotPath

\* C2 witness: a successful run against a SUT that answers after a delay.
C2_Witness ==
    /\ script = "features" /\ Exited /\ BehavesAsExpected
    /\ sut.latency > 0 /\ exitCode = 0 /\ Len(shots) = 1

\* C3: in Procedure A an awaited condition the SUT does not meet within its
\* bound ends the run at that statement: the statement is executed once and
\* is the last one executed, no screenshot is taken, and the exit status is
\* not zero.
C3_UnmetWaitAborts ==
    script = "features" =>
        \A i \in 1..Len(log) :
            Unmet(log[i]) =>
                /\ i = Len(log)
                /\ raised = log[i]
                /\ pc \in {"with_exit", "exited"}
                /\ shots = <<>>
                /\ Exited => exitCode = 1

\* C3 witness: the button did not become visible within 20 seconds and the
\* run has ended there.
C3_Witness ==
    /\ script = "features" /\ Exited
    /\ raised = "expect_button" /\ clock >= ButtonTimeout
    /\ exitCode = 1 /\ shots = <<>>

\* the first card becomes visible, but the click on it does not bring a URL
\* containing /tool/ within 10 seconds
CardVisibleUrlUnmet ==
    /\ ~Unmet("goto") /\ ~Unmet("wait_for_load_state")
    /\ ~Unmet("expect_button") /\ ~Unmet("expect_card")
    /\ Unmet("expect_url")

\* C4: when the first card becomes visible but the URL does not come to
\* contain /tool/ within 10 seconds, the run fails exactly at the URL
\* assertion: statements 1-5 are done (the SUT is seeded, the card clicked)
\* and the favourite check, the Reviews check and the screenshot never run.
C4_FailsAtUrlAssertion ==
    (script = "features" /\ Exited /\ CardVisibleUrlUnmet) =>
        /\ raised = "expect_url"
        /\ log = SubSeq(FeatureSteps, 1, 9)
        /\ seeded
        /\ url = sut.cardTarget
        /\ shots = <<>>
        /\ exitCode = 1

\* C4 witness: the card led to /tools, which does not contain /tool/.
C4_Witness ==
    /\ script = "features" /\ Exited /\ CardVisibleUrlUnmet
    /\ sut.cardTarget = ToolsUrl /\ raised = "expect_url"

\* C5: when the connection is refused, the run fails at the navigation
\* itself, without having blocked at all and before any wait is entered,
\* and the browser is released.
C5_RefusedFailsFast ==
    (Exited /\ sut.server = "refused") =>
        /\ raised = "goto"
        /\ log = <<"launch", "new_page", "goto">>
        /\ clock = 0
        /\ browser = "closed"
        /\ exitCode = 1

\* C5 witness: a run of Procedure B against a refused connection has ended.
C5_Witness ==
    /\ script = "layout" /\ Exited /\ sut.server = "refused"
    /\ raised = "goto" /\ browser = "closed"

\* the SUT of Procedure B answers and loads within the default bound and
\* the capture can be saved
LayoutReady ==
    /\ sut.server = "up"
    /\ sut.latency < DefaultTimeout
    /\ sut.disk

\* the headings whose text contains the phrase when case is ignored and
\* whitespace is normalised
MatchingHeadings ==
    {HeadingPattern, HeadingLower, HeadingLonger, HeadingSpaced}

\* C6 as stated: Procedure B completes and writes its screenshot when the
\* heading is exactly "AI Tools Database", and for every other heading text
\* the wait does not succeed and no screenshot is written.
C6_ExactHeadingOnly ==
    (script = "layout" /\ Exited) =>
        /\ (sut.heading = HeadingPattern /\ LayoutReady) =>
               (Len(shots) = 1 /\ exitCode = 0)
        /\ sut.heading # HeadingPattern =>
               (shots = <<>> /\ ~Executed("screenshot"))

\* C6 as amended: Procedure B completes and writes its screenshot when the
\* h1 text contains "AI Tools Database", compared without regard to case
\* and with whitespace normalised; for a heading that does not contain the
\* phrase the wait ends in a timeout after the default 30 seconds, the run
\* fails and no screenshot is written.
C6_ContainingHeading ==
    (script = "layout" /\ Exited) =>
        /\ (sut.heading \in MatchingHeadings /\ LayoutReady) =>
               /\ Len(shots) = 1 /\ exitCode = 0
               /\ shots[1].path = LayoutShotPath
        /\ sut.heading \notin MatchingHeadings =>
               /\ shots = <<>> /\ ~Executed("screenshot")
               /\ exitCode = 1
               /\ Executed("wait_for_selector") =>
                      (raised = "wait_for_selector" /\ clock >= DefaultTimeout)

\* C6 witness: a lower-case heading, and the screenshot was written.
C6_Witness ==
    /\ script = "layout" /\ Exited /\ sut.heading = HeadingLower
    /\ Len(shots) = 1 /\ exitCode = 0

\* C7: every later run of Procedure A ends as the first one did, whatever
\* state the earlier runs left in the SUT.
C7_SameOutcomeEveryRun ==
    script = "features" =>
        \A i \in 1..Len(outcomes) : outcomes[i] = outcomes[1]

\* C8: the statements of Procedure A run in one fixed order, each at most
\* once: what a run has executed is always an initial part of the fixed
\* sequence, and a screenshot exists only after the URL, favourite and
\* Reviews assertions were executed, in that order, and none raised.
C8_LinearOrder ==
    script = "features" =>
        /\ IsPrefix(log, FeatureSteps)
        /\ shots # <<>> =>
              /\ IsPrefix(SubSeq(FeatureSteps, 1, 12), log)
              /\ raised = "none"
              /\ UrlPredicate(url) /\ sut.favourite /\ sut.reviews
        /\ Executed("click_button") => ~Unmet("expect_button")
        /\ Executed("click_card") => (seeded /\ ~Unmet("expect_card"))

\* C8 witness: a run that executed all thirteen statements.
C8_Witness ==
    /\ script = "features" /\ Exited
    /\ log = FeatureSteps /\ Len(shots) = 1

\* C9 as stated: every screenshot covers the whole scrollable page.
C9_FullPage ==
    /\ \A i \in 1..Len(shots) : shots[i].height = shots[i].page_height
    /\ \A i \in 1..Len(shots) : shots[i].full_page

\* C9 as amended: the screenshot step of each procedure captures the visible
\* viewport only (full_page is left at its default, off), whatever the
\* height of the page, and writes it to the procedure's fixed path.
C9_ViewportOnly ==
    /\ \A i \in 1..Len(shots) :
          /\ ~shots[i].full_page
          /\ shots[i].height = ViewportHeight
          /\ shots[i].path =
                IF script = "features" THEN FeaturesShotPath ELSE LayoutShotPath
    /\ \A f \in files : f.height = ViewportHeight

\* C9 witness: a page taller than the viewport was captured.
C9_Witness ==
    /\ Len(shots) = 1
    /\ shots[1].page_height > ViewportHeight
    /\ shots[1].height = ViewportHeight

\* C10: every run of either procedure terminates, whatever the SUT does:
\* a run that has not exited eventually exits.
C10_EveryRunTerminates == (pc # "exited") ~> (pc = "exited")

\* C10 witness: the SUT never answered; the navigation ended in a timeout
\* after the default 30 seconds and the run has exited.
C10_Witness ==
    /\ Exited /\ sut.server = "hang"
    /\ raised = "goto" /\ clock = DefaultTimeout

===========================================================================
